---- MODULE Spec2Model ----
(***************************************************************************)
(* RegressionEnsembleModel (darts/models/regression_ensemble_model.py):    *)
(* an ensemble that trains a regression model on the member forecasting    *)
(* models' predictions over a held-out tail of the training series.        *)
(*                                                                         *)
(* The orchestrator's fields and the locals of fit are the variables; the  *)
(* constructor, every statement group of fit that calls a collaborator,    *)
(* and ensemble are the actions.  Collaborators that live outside the file *)
(* (TimeSeries, the member models, the regression adapter, the base        *)
(* ensemble) are modelled by what the file observes of them: the calls     *)
(* they receive, in order, with their arguments.                           *)
(***************************************************************************)
EXTENDS Integers, Sequences, FiniteSets, TLC

VARIABLES
    pc,                 \* position of the caller: new / constructed / inside fit / done / failed
    models,             \* self.models: sequence of member model instances
    regression_model,   \* self.regression_model (before construction: the argument)
    train_n_points,     \* self.train_n_points (before construction: the argument)
    is_single_series,   \* self.is_single_series, set by the base fit
    is_global_ensemble, \* self.is_global_ensemble
    training_series,    \* self.training_series, set by the base fit
    series,             \* fit argument
    past_covariates,    \* fit argument
    future_covariates,  \* fit argument
    forecast_training,  \* fit local
    regression_target,  \* fit local
    predictions,        \* fit local
    i,                  \* index of the member the running loop of fit is at
    calls,              \* collaborator calls made by the running fit, in order
    raised,             \* the error the last operation ended with, or NoError
    next_id,            \* identity given to the next model instance created
    ens                 \* arguments and result of the last ensemble call

vars == <<pc, models, regression_model, train_n_points, is_single_series,
          is_global_ensemble, training_series, series, past_covariates,
          future_covariates, forecast_training, regression_target, predictions,
          i, calls, raised, next_id, ens>>

self_fields == <<models, regression_model, train_n_points, is_single_series,
                 is_global_ensemble, training_series>>
fit_args == <<series, past_covariates, future_covariates>>
fit_locals == <<forecast_training, regression_target, predictions>>

----------------------------------------------------------------------------
(* Bounds of the model *)

MaxLen == 2
MaxSeries == 2
MaxModels == 2

----------------------------------------------------------------------------
(* Values *)

None == "None"
Absent == "absent"          \* a keyword the call does not pass at all
NoError == "none"
ConfigurationError == "ConfigurationError"
TypeError == "TypeError"

Max(a, b) == IF a >= b THEN a ELSE b
Min(a, b) == IF a <= b THEN a ELSE b

\* A TimeSeries is the sequence of its points; the j-th series of an input
\* carries points 10*j+1, 10*j+2, ... so that every point is distinct.
TS(j, L) == [k \in 1..L |-> 10 * j + k]

\* The series argument of fit: one TimeSeries (single = TRUE, one item) or a
\* sequence of TimeSeries.
NoData == [single |-> TRUE, items |-> <<>>]
SingleInputs == {[single |-> TRUE, items |-> <<TS(1, L)>>] : L \in 1..MaxLen}
SeqInputs ==
    UNION {{[single |-> FALSE, items |-> [j \in 1..m |-> TS(j, lens[j])]] :
               lens \in [1..m -> 1..MaxLen]} : m \in 1..MaxSeries}
SeriesInputs == SingleInputs \cup SeqInputs

\* len(ts)
len(ts) == Len(ts)

\* Python's slice index normalisation for a sequence of length L
NormIndex(k, L) == IF k < 0 THEN Max(L + k, 0) ELSE Min(k, L)
\* ts[:stop]
SliceTo(ts, stop) == SubSeq(ts, 1, NormIndex(stop, Len(ts)))
\* ts[start:]
SliceFrom(ts, start) == SubSeq(ts, NormIndex(start, Len(ts)) + 1, Len(ts))

----------------------------------------------------------------------------
(* Collaborators, as the orchestrator observes them *)

\* A member forecasting model instance: its identity, the capability flags the
\* orchestrator probes, and the series arguments of the fit calls it has
\* completed, oldest first.
Member(id, past, future, reset) ==
    [id |-> id,
     uses_past_covariates |-> past,
     uses_future_covariates |-> future,
     has_untrained_model |-> reset,
     fitted_on |-> <<>>]

\* The kinds of member model a caller hands over, as <<uses_past_covariates,
\* uses_future_covariates, has untrained_model>>: every combination of the two
\* covariate flags, and both answers to hasattr(model, "untrained_model").
MemberKinds ==
    {<<TRUE, FALSE, TRUE>>, <<FALSE, TRUE, FALSE>>,
     <<FALSE, FALSE, TRUE>>, <<TRUE, TRUE, FALSE>>}

\* The member lists a caller can hand to the constructor: 1..MaxModels models
\* with identities 1, 2, ...
MemberLists ==
    UNION {{[j \in 1..n |-> Member(j, fl[j][1], fl[j][2], fl[j][3])] :
               fl \in [1..n -> MemberKinds]} : n \in 1..MaxModels}

\* model.untrained_model(): a fresh instance of the same configuration
untrained_model(model, id) ==
    [model EXCEPT !.id = id, !.fitted_on = <<>>]

\* The lag settings a RegressionModel can carry
LagValues == {None, "[0]", "[-1]"}

Adapter(kind, lags, hist, past, future) ==
    [kind |-> kind,
     lags |-> lags,
     lags_historical_covariates |-> hist,
     lags_past_covariates |-> past,
     lags_future_covariates |-> future,
     fitted_on |-> <<>>]

\* The regression_model arguments of the constructor: None, a RegressionModel
\* with any lag settings, or a scikit-learn like model (which has no lags).
RegressionModelArgs ==
    {Adapter("NoneType", None, None, None, None),
     Adapter("sklearn", None, None, None, None)}
    \cup {Adapter("RegressionModel", l, h, p, f) :
             l \in LagValues, h \in LagValues, p \in LagValues, f \in LagValues}

\* LinearRegressionModel(lags=None, lags_future_covariates=[0], fit_intercept=False)
LinearRegressionModel == Adapter("LinearRegressionModel", None, None, None, "[0]")
\* RegressionModel(lags_future_covariates=[0], model=regression_model)
RegressionModel(model) == Adapter("RegressionModel", None, None, None, "[0]")

\* model.predict(n, ...): the forecast a member returns, identified by the
\* model that made it, its horizon and the series it was asked to continue.
Forecast(model, n, ctx) == [model |-> model.id, n |-> n, series |-> ctx]

NoFeatures == [helper |-> "none", cols |-> <<>>]
\* self._stack_ts_seq(predictions)
stack_ts_seq(preds) == [helper |-> "_stack_ts_seq", cols |-> preds]
\* self._stack_ts_multiseq(predictions)
stack_ts_multiseq(preds) == [helper |-> "_stack_ts_multiseq", cols |-> preds]

\* One collaborator call, as logged: the operation, the receiving model (0 for
\* the regression adapter), its arguments and whether it returned (ok) or raised.
Call(op, id, s, past, future, n, feats, ok) ==
    [op |-> op, model |-> id, series |-> s, past_covariates |-> past,
     future_covariates |-> future, n |-> n, features |-> feats, ok |-> ok]

----------------------------------------------------------------------------
(* __init__, lines 18-60 *)

\* lines 41-47: the adapter the constructor resolves its argument to
resolve_regression_model(arg) ==
    IF arg.kind = "NoneType" THEN LinearRegressionModel
    ELSE IF arg.kind = "RegressionModel" THEN arg
    ELSE RegressionModel(arg)

\* lines 50-51: the condition handed to raise_if
lags_rejected(rm) ==
    /\ rm.lags # None
    /\ rm.lags_historical_covariates # None
    /\ rm.lags_past_covariates # None
    /\ rm.lags_future_covariates # "[0]"

\* The horizons a caller passes as regression_train_n_points
Horizons == 0..MaxLen

NoEnsemble == [called |-> FALSE, predictions |-> <<>>, series |-> <<>>,
               series_given |-> FALSE, out |-> <<>>]

\* State before the constructor runs: its three arguments are chosen.
InitNew ==
    /\ pc = "new"
    /\ models \in MemberLists
    /\ is_global_ensemble \in BOOLEAN
    /\ regression_model \in RegressionModelArgs
    /\ train_n_points \in Horizons
    /\ is_single_series = FALSE
    /\ training_series = NoData
    /\ series = NoData
    /\ past_covariates = None
    /\ future_covariates = None
    /\ forecast_training = NoData
    /\ regression_target = NoData
    /\ predictions = <<>>
    /\ i = 0
    /\ calls = <<>>
    /\ raised = NoError
    /\ next_id = Len(models) + 1
    /\ ens = NoEnsemble

\* RegressionEnsembleModel.__init__
init ==
    /\ pc = "new"
    /\ LET rm == resolve_regression_model(regression_model) IN
         IF lags_rejected(rm)
         THEN /\ pc' = "init_failed"
              /\ raised' = ConfigurationError
              /\ UNCHANGED regression_model
         ELSE /\ pc' = "constructed"
              /\ regression_model' = rm
              /\ UNCHANGED raised
    /\ UNCHANGED <<models, train_n_points, is_single_series, is_global_ensemble,
                   training_series, fit_args, fit_locals, i, calls, next_id, ens>>

NextInit == init

\* The constructor alone, over every argument combination
SpecInit == InitNew /\ [][NextInit]_vars

\* State after a successful construction with the default adapter
\* (regression_model=None): the initial state of the fit / ensemble life cycle.
\* fit and ensemble never read the adapter's lag settings.
Init ==
    /\ pc = "constructed"
    /\ models \in MemberLists
    /\ is_global_ensemble \in BOOLEAN
    /\ regression_model = resolve_regression_model(Adapter("NoneType", None, None, None, None))
    /\ train_n_points \in Horizons
    /\ is_single_series = FALSE
    /\ training_series = NoData
    /\ series = NoData
    /\ past_covariates = None
    /\ future_covariates = None
    /\ forecast_training = NoData
    /\ regression_target = NoData
    /\ predictions = <<>>
    /\ i = 0
    /\ calls = <<>>
    /\ raised = NoError
    /\ next_id = Len(models) + 1
    /\ ens = NoEnsemble

----------------------------------------------------------------------------
(* _split_multi_ts_sequence, lines 62-66 *)

\* left = [ts[:-n] for ts in ts_sequence]
split_left(n, ts_sequence) ==
    [j \in DOMAIN ts_sequence |-> SliceTo(ts_sequence[j], 0 - n)]
\* right = [ts[-n:] for ts in ts_sequence]
split_right(n, ts_sequence) ==
    [j \in DOMAIN ts_sequence |-> SliceFrom(ts_sequence[j], 0 - n)]
_split_multi_ts_sequence(n, ts_sequence) ==
    <<split_left(n, ts_sequence), split_right(n, ts_sequence)>>

----------------------------------------------------------------------------
(* fit, lines 68-143 *)

\* The covariate arguments a caller passes to fit.  fit never inspects them, it
\* only forwards them: one value stands for whatever the caller passed (None
\* included).
PastCovariateInputs == {"past_covariates"}
FutureCovariateInputs == {"future_covariates"}

\* Variant of train_n_points_too_big: the comparison is strict
train_n_points_too_big_strict(single, training, s, n) ==
    IF single
    THEN len(training.items[1]) < n
    ELSE \E j \in DOMAIN s.items : len(s.items[j]) < n

\* lines 77-80
train_n_points_too_big(single, training, s, n) ==
    IF single
    THEN len(training.items[1]) <= n
    ELSE \E j \in DOMAIN s.items : len(s.items[j]) <= n

\* lines 86-90: <<forecast_training, regression_target>>
calibration_split(single, training, s, n) ==
    IF single
    THEN <<[single |-> TRUE, items |-> <<SliceTo(training.items[1], 0 - n)>>],
           [single |-> TRUE, items |-> <<SliceFrom(training.items[1], 0 - n)>>]>>
    ELSE LET lr == _split_multi_ts_sequence(n, s.items) IN
           <<[single |-> FALSE, items |-> lr[1]],
             [single |-> FALSE, items |-> lr[2]]>>

\* Variant of propagate: the error is recorded and fit goes on with its next
\* step, as if the loop or call were wrapped in try / except
propagate_and_continue(error) ==
    /\ pc' = CASE pc = "fit_models" -> "predict"
               [] pc = "predict" -> "fit_regression"
               [] pc = "fit_regression" -> "reset"
               [] OTHER -> "done"
    /\ raised' = error
    /\ UNCHANGED <<self_fields, fit_args, fit_locals, i, next_id, ens>>

\* An uncaught exception leaves fit: nothing after the raising call runs.
propagate(error) ==
    /\ pc' = "failed"
    /\ raised' = error
    /\ UNCHANGED <<self_fields, fit_args, fit_locals, i, next_id, ens>>

\* Variant of fit: the horizon check runs after the first loop has started, so
\* a rejected call has already trained the first member on the split prefix
fit_check_after_training(s, past, future) ==
    /\ pc = "constructed"
    /\ series' = s
    /\ past_covariates' = past
    /\ future_covariates' = future
    /\ is_single_series' = s.single
    /\ training_series' = s
    /\ LET sp == calibration_split(s.single, s, s, train_n_points) IN
       IF train_n_points_too_big(s.single, s, s, train_n_points)
       THEN /\ calls' = <<Call("fit", models[1].id, sp[1], Absent, Absent, 0,
                               NoFeatures, TRUE)>>
            /\ models' = [models EXCEPT ![1].fitted_on = Append(@, sp[1])]
            /\ pc' = "failed"
            /\ raised' = ConfigurationError
            /\ UNCHANGED <<fit_locals, i>>
       ELSE /\ calls' = <<>>
            /\ forecast_training' = sp[1]
            /\ regression_target' = sp[2]
            /\ predictions' = <<>>
            /\ pc' = "fit_models"
            /\ i' = 1
            /\ UNCHANGED <<raised, models>>
    /\ UNCHANGED <<regression_model, train_n_points, is_global_ensemble,
                   next_id, ens>>

\* lines 74-90: the base fit's bookkeeping, the horizon check and the split
fit(s, past, future) ==
    /\ pc = "constructed"
    /\ series' = s
    /\ past_covariates' = past
    /\ future_covariates' = future
    /\ is_single_series' = s.single
    /\ training_series' = s
    /\ calls' = <<>>
    /\ IF train_n_points_too_big(s.single, s, s, train_n_points)
       THEN /\ pc' = "failed"
            /\ raised' = ConfigurationError
            /\ UNCHANGED <<fit_locals, i>>
       ELSE LET sp == calibration_split(s.single, s, s, train_n_points) IN
            /\ forecast_training' = sp[1]
            /\ regression_target' = sp[2]
            /\ predictions' = <<>>
            /\ pc' = "fit_models"
            /\ i' = 1
            /\ UNCHANGED raised
    /\ UNCHANGED <<models, regression_model, train_n_points, is_global_ensemble,
                   next_id, ens>>

\* Variant of fit_call: a global model gets both covariates whatever it declares
fit_call_all_covariates(model, s, ok) ==
    IF is_global_ensemble
    THEN Call("fit", model.id, s, past_covariates, future_covariates,
              0, NoFeatures, ok)
    ELSE Call("fit", model.id, s, Absent, Absent, 0, NoFeatures, ok)

\* lines 94-103 and 134-143: the fit call a member receives for training data s
fit_call(model, s, ok) ==
    IF is_global_ensemble
    THEN Call("fit", model.id, s,
              IF model.uses_past_covariates THEN past_covariates ELSE Absent,
              IF model.uses_future_covariates THEN future_covariates ELSE Absent,
              0, NoFeatures, ok)
    ELSE Call("fit", model.id, s, Absent, Absent, 0, NoFeatures, ok)

\* Variant of after_loop: the loop is left after its first iteration
after_loop_first_only(next_pc) ==
    pc' = next_pc /\ i' = 1

\* The position after the body of a loop over self.models has run for member i
after_loop(next_pc) ==
    IF i < Len(models)
    THEN pc' = pc /\ i' = i + 1
    ELSE pc' = next_pc /\ i' = 1

\* lines 93-103: one iteration of the first loop over self.models
fit_forecasting_model ==
    /\ pc = "fit_models"
    /\ \/ /\ calls' = Append(calls, fit_call(models[i], forecast_training, TRUE))
          /\ models' = [models EXCEPT ![i].fitted_on = Append(@, forecast_training)]
          /\ after_loop("predict")
          /\ UNCHANGED <<regression_model, train_n_points, is_single_series,
                         is_global_ensemble, training_series, fit_args, fit_locals,
                         raised, next_id, ens>>
       \/ /\ calls' = Append(calls, fit_call(models[i], forecast_training, FALSE))
          /\ propagate("model.fit")

\* lines 106-114: the predict call get_prediction(model) makes
predict_call(model, ok) ==
    IF is_global_ensemble /\ ~is_single_series
    THEN Call("predict", model.id, forecast_training, past_covariates,
              future_covariates, train_n_points, NoFeatures, ok)
    ELSE Call("predict", model.id, NoData, Absent, Absent, train_n_points,
              NoFeatures, ok)

\* line 116: one element of the list comprehension over self.models
get_prediction ==
    /\ pc = "predict"
    /\ \/ /\ calls' = Append(calls, predict_call(models[i], TRUE))
          /\ predictions' = Append(predictions,
                                   Forecast(models[i], train_n_points,
                                            predict_call(models[i], TRUE).series))
          /\ after_loop("fit_regression")
          /\ UNCHANGED <<self_fields, fit_args, forecast_training,
                         regression_target, raised, next_id, ens>>
       \/ /\ calls' = Append(calls, predict_call(models[i], FALSE))
          /\ propagate("model.predict")

\* lines 117-120
stacked(preds) ==
    IF is_single_series THEN stack_ts_seq(preds) ELSE stack_ts_multiseq(preds)

\* line 123
regression_fit_call(ok) ==
    Call("regression_model.fit", 0, regression_target, Absent, Absent, 0,
         stacked(predictions), ok)

\* lines 117-123: stack the predictions and fit the regression model
fit_regression_model ==
    /\ pc = "fit_regression"
    /\ \/ /\ calls' = Append(calls, regression_fit_call(TRUE))
          /\ regression_model' =
                 [regression_model EXCEPT !.fitted_on =
                      Append(@, [series |-> regression_target,
                                 future_covariates |-> stacked(predictions)])]
          /\ pc' = "reset"
          /\ UNCHANGED <<models, train_n_points, is_single_series, is_global_ensemble,
                         training_series, fit_args, fit_locals, i, raised, next_id, ens>>
       \/ /\ calls' = Append(calls, regression_fit_call(FALSE))
          /\ propagate("regression_model.fit")

\* Number of members among the first k that expose untrained_model
resets_before(k) ==
    Cardinality({j \in 1..(k - 1) : models[j].has_untrained_model})

\* Variant of reset_model: untrained_model is called without the hasattr test
reset_model_always(j) ==
    untrained_model(models[j], next_id + resets_before(j))

\* Variant of reset_model: the member is kept, never replaced by a fresh copy
reset_model_kept(j) ==
    models[j]

\* line 130: the element of the new list that replaces member j
reset_model(j) ==
    IF models[j].has_untrained_model
    THEN untrained_model(models[j], next_id + resets_before(j))
    ELSE models[j]

\* lines 130-131: self.models = [... for model in self.models]
untrained_models ==
    /\ pc = "reset"
    /\ models' = [j \in DOMAIN models |-> reset_model(j)]
    /\ next_id' = next_id + resets_before(Len(models) + 1)
    /\ calls' = calls \o
           SelectSeq([j \in DOMAIN models |->
                        Call("untrained_model", models[j].id, NoData, Absent, Absent,
                             0, NoFeatures, models[j].has_untrained_model)],
                     LAMBDA c : c.ok)
    /\ pc' = "refit_models"
    /\ i' = 1
    /\ UNCHANGED <<regression_model, train_n_points, is_single_series,
                   is_global_ensemble, training_series, fit_args, fit_locals,
                   raised, ens>>

\* Variant of refit_series: the second loop trains on the truncated prefix again
refit_series_truncated ==
    forecast_training

\* lines 135 and 143: the series the second loop trains member models on
refit_series ==
    IF is_global_ensemble THEN series ELSE training_series

\* lines 133-143: one iteration of the second loop over self.models
refit_forecasting_model ==
    /\ pc = "refit_models"
    /\ \/ /\ calls' = Append(calls, fit_call(models[i], refit_series, TRUE))
          /\ models' = [models EXCEPT ![i].fitted_on = Append(@, refit_series)]
          /\ after_loop("done")
          /\ UNCHANGED <<regression_model, train_n_points, is_single_series,
                         is_global_ensemble, training_series, fit_args, fit_locals,
                         raised, next_id, ens>>
       \/ /\ calls' = Append(calls, fit_call(models[i], refit_series, FALSE))
          /\ propagate("model.fit")

----------------------------------------------------------------------------
(* ensemble, lines 145-152 *)

\* The forecast horizons of the predictions handed to ensemble
EnsembleHorizons == {1, 2}

\* The stacked-prediction inputs of ensemble: one feature TimeSeries in a
\* single-series run, a sequence of them otherwise (one per series, all of the
\* forecast horizon k the member models were asked for).
FeatureInputs(single) ==
    IF single
    THEN {<<TS(5, k)>> : k \in EnsembleHorizons}
    ELSE {[j \in 1..m |-> TS(5 + j, k)] : m \in 1..MaxSeries, k \in EnsembleHorizons}

\* The series inputs of ensemble: None, or the training series
EnsembleSeriesInputs ==
    {[given |-> FALSE, items |-> <<>>], [given |-> TRUE, items |-> series.items]}

\* regression_model.predict(n=..., series=..., future_covariates=...): the
\* forecast the adapter returns for these arguments (series <<>>: not passed)
regression_predict(n, s, features) ==
    [n |-> n, series |-> s, future_covariates |-> features]

\* Variant of ensemble_result: the horizon is the calibration horizon
ensemble_result_train_n_points(preds, sers) ==
    IF is_single_series
    THEN <<regression_predict(train_n_points, <<>>, preds[1])>>
    ELSE [k \in 1..Min(Len(sers), Len(preds)) |->
             regression_predict(train_n_points, sers[k], preds[k])]

\* lines 148-152: the value ensemble returns (a single forecast is a
\* one-element sequence here)
ensemble_result(preds, sers) ==
    IF is_single_series
    THEN <<regression_predict(len(preds[1]), <<>>, preds[1])>>
    ELSE [k \in 1..Min(Len(sers), Len(preds)) |->
             regression_predict(len(preds[k]), sers[k], preds[k])]

\* Variant of ensemble: the regression model is fit again on the predictions
\* it is asked to combine
ensemble_refitting(preds, sers) ==
    /\ pc = "done"
    /\ raised' = NoError
    /\ ens' = [called |-> TRUE, predictions |-> preds, series |-> sers.items,
               series_given |-> sers.given,
               out |-> ensemble_result(preds, sers.items)]
    /\ regression_model' =
           [regression_model EXCEPT !.fitted_on =
                Append(<<>>, [series |-> regression_target,
                              future_covariates |-> stack_ts_seq(preds)])]
    /\ UNCHANGED <<pc, models, train_n_points, is_single_series, is_global_ensemble,
                   training_series, fit_args, fit_locals, i, calls, next_id>>

ensemble(preds, sers) ==
    /\ pc = "done"
    /\ IF ~is_single_series /\ ~sers.given
       THEN \* zip(None, predictions)
            /\ raised' = TypeError
            /\ ens' = [called |-> TRUE, predictions |-> preds, series |-> sers.items,
                       series_given |-> sers.given, out |-> <<>>]
       ELSE /\ raised' = NoError
            /\ ens' = [called |-> TRUE, predictions |-> preds, series |-> sers.items,
                       series_given |-> sers.given,
                       out |-> ensemble_result(preds, sers.items)]
    /\ UNCHANGED <<pc, self_fields, fit_args, fit_locals, i, calls, next_id>>

Next ==
    \/ \E s \in SeriesInputs, past \in PastCovariateInputs,
          future \in FutureCovariateInputs : fit(s, past, future)
    \/ fit_forecasting_model
    \/ get_prediction
    \/ fit_regression_model
    \/ untrained_models
    \/ refit_forecasting_model
    \/ \E preds \in FeatureInputs(is_single_series), sers \in EnsembleSeriesInputs :
          ensemble(preds, sers)

Spec == Init /\ [][Next]_vars

----------------------------------------------------------------------------
(* Properties *)

\* The lag configuration the documentation and the error message require
lags_as_required(rm) ==
    /\ rm.lags = None
    /\ rm.lags_historical_covariates = None
    /\ rm.lags_past_covariates = None
    /\ rm.lags_future_covariates = "[0]"

\* C1: once the constructor has run on a supplied RegressionModel, it has
\* failed with the configuration error exactly when at least one of the four
\* lag settings is not as required (lags, lags_historical_covariates and
\* lags_past_covariates None, lags_future_covariates [0]).
C1_ConstructorRejectsEveryBadLagSetting ==
    (pc \in {"constructed", "init_failed"} /\ regression_model.kind = "RegressionModel")
        => ((pc = "init_failed" /\ raised = ConfigurationError)
               <=> ~lags_as_required(regression_model))

\* fit has been called (and has at least run its horizon check)
fit_called == pc \notin {"new", "init_failed", "constructed"}
\* fit has passed its horizon check and computed the calibration split
split_done == fit_called /\ forecast_training # NoData

\* The horizon is not strictly smaller than the length of every training series
horizon_not_below_every_length ==
    IF series.single
    THEN train_n_points >= Len(series.items[1])
    ELSE \E j \in DOMAIN series.items : Len(series.items[j]) <= train_n_points

C3_LastFitOnFullSeries ==
    pc = "done" =>
        \A j \in DOMAIN models :
            /\ Len(models[j].fitted_on) >= 1
            /\ models[j].fitted_on[Len(models[j].fitted_on)] = series
            /\ models[j].fitted_on[Len(models[j].fitted_on)] # forecast_training

\* C3 witness: a local multi-series fit with a real hold-out has succeeded, and
\* one member has no untrained_model (the instance fit on the prefix is held)
C3_Witness ==
    /\ pc = "done"
    /\ ~is_global_ensemble
    /\ ~is_single_series
    /\ train_n_points >= 1
    /\ Len(models) = 2
    /\ \E j \in DOMAIN models : ~models[j].has_untrained_model

\* C4: for every horizon that passes fit's check, the split keeps the shape of
\* the input and, series by series, the prefix has length L - h, the suffix has
\* length h, and prefix followed by suffix is the original series.
C4_SplitLossless ==
    split_done =>
        /\ forecast_training.single = series.single
        /\ regression_target.single = series.single
        /\ Len(forecast_training.items) = Len(series.items)
        /\ Len(regression_target.items) = Len(series.items)
        /\ \A j \in DOMAIN series.items :
              /\ Len(forecast_training.items[j]) = Len(series.items[j]) - train_n_points
              /\ Len(regression_target.items[j]) = train_n_points
              /\ forecast_training.items[j] \o regression_target.items[j]
                     = series.items[j]

\* Kinds of logged call.  A first-loop fit is recognised by its training data:
\* the truncated prefix always differs from the full series.
is_calibration_fit(c) == c.op = "fit" /\ c.series = forecast_training
is_full_fit(c) == c.op = "fit" /\ c.series = series
is_predict(c) == c.op = "predict"
is_regression_fit(c) == c.op = "regression_model.fit"
is_reset(c) == c.op = "untrained_model"

\* Numbers of calls of a kind that returned, among the first k - 1 logged calls
calibration_fits_returned_before(k) ==
    Cardinality({a \in 1..(k - 1) : is_calibration_fit(calls[a]) /\ calls[a].ok})
predicts_returned_before(k) ==
    Cardinality({a \in 1..(k - 1) : is_predict(calls[a]) /\ calls[a].ok})
regression_fits_returned_before(k) ==
    Cardinality({a \in 1..(k - 1) : is_regression_fit(calls[a]) /\ calls[a].ok})

\* C5: within one fit call, a member's predict is invoked only after every
\* member's calibration fit has returned (and no calibration fit follows it),
\* the regression model's fit is invoked only after every member's predict has
\* returned, and a member is reset or refit on the full data only after the
\* regression model's fit has returned.
C5_TwoPhaseOrder ==
    \A k \in DOMAIN calls :
        /\ is_predict(calls[k]) =>
              /\ calibration_fits_returned_before(k) = Len(models)
              /\ \A b \in DOMAIN calls : b > k => ~is_calibration_fit(calls[b])
        /\ is_regression_fit(calls[k]) =>
              /\ predicts_returned_before(k) = Len(models)
              /\ \A b \in DOMAIN calls : b > k => ~is_predict(calls[b])
        /\ (is_reset(calls[k]) \/ is_full_fit(calls[k])) =>
              regression_fits_returned_before(k) = 1

\* C5 witness: a fit over two members, one of them reset, has run to its end
C5_Witness ==
    /\ pc = "done"
    /\ Len(models) = 2
    /\ \E k \in DOMAIN calls : is_reset(calls[k])
    /\ \E k \in DOMAIN calls : is_full_fit(calls[k])

\* The error a raising call of this kind ends with
error_of(c) == IF c.op = "predict" THEN "model.predict"
               ELSE IF c.op = "fit" THEN "model.fit"
               ELSE "regression_model.fit"

\* C6: a collaborator call that raises is the last call fit makes, and fit has
\* ended with that call's error; when it is a calibration fit, a predict or the
\* regression model's fit, every earlier call returned, no member has been
\* reset or refit on the full series, and the member list still holds the
\* instances it was given.
C6_ErrorAbortsFit ==
    \A k \in DOMAIN calls :
        ~calls[k].ok =>
            /\ k = Len(calls)
            /\ pc = "failed"
            /\ raised = error_of(calls[k])
            /\ \A a \in 1..(k - 1) : calls[a].ok
            /\ ~is_full_fit(calls[k]) =>
                  /\ \A a \in DOMAIN calls : ~is_reset(calls[a]) /\ ~is_full_fit(calls[a])
                  /\ \A j \in DOMAIN models :
                        /\ models[j].id = j
                        /\ \A f \in DOMAIN models[j].fitted_on :
                              models[j].fitted_on[f] = forecast_training

\* C6 witness: the second member's predict raised after the first's returned
C6_Witness ==
    /\ pc = "failed"
    /\ raised = "model.predict"
    /\ Len(models) = 2
    /\ Len(calls) = 4
    /\ calls[4].model = 2

\* C7: ensemble returns one forecast per input, in input order: in a
\* single-series run the adapter's predict for n = len(predictions) with
\* predictions as future covariates; in a multi-series run one result per
\* (series, prediction) pair, the k-th being the adapter's predict for
\* n = len(prediction k), series = series k, future covariates = prediction k.
C7_EnsembleResult ==
    (ens.called /\ raised = NoError) =>
        IF is_single_series
        THEN /\ Len(ens.out) = 1
             /\ ens.out[1].n = Len(ens.predictions[1])
             /\ ens.out[1].future_covariates = ens.predictions[1]
             /\ ens.out[1].series = <<>>
        ELSE /\ Len(ens.out) = Min(Len(ens.series), Len(ens.predictions))
             /\ \A k \in DOMAIN ens.out :
                   /\ ens.out[k].n = Len(ens.predictions[k])
                   /\ ens.out[k].series = ens.series[k]
                   /\ ens.out[k].future_covariates = ens.predictions[k]

\* C7 witness: a multi-series ensemble call over two pairs, with a horizon
\* other than the calibration horizon
C7_Witness ==
    /\ ens.called
    /\ raised = NoError
    /\ ~is_single_series
    /\ Len(ens.out) = 2
    /\ Len(ens.predictions[1]) # train_n_points

\* C8 (as stated): after a successful fit no held member instance, with or
\* without untrained_model, has been fit on the truncated prefix.
C8_NoHeldInstanceFitOnPrefix ==
    pc = "done" =>
        \A j \in DOMAIN models :
            \A f \in DOMAIN models[j].fitted_on :
                models[j].fitted_on[f] # forecast_training

\* C8 (amended): after a successful fit, a held member with untrained_model is
\* a fresh instance that has been fit on the full series only; a held member
\* without it is the instance that was handed over, fit on the truncated
\* prefix and then on the full series.
C8_OnlyResetMembersAreFresh ==
    pc = "done" =>
        \A j \in DOMAIN models :
            IF models[j].has_untrained_model
            THEN /\ models[j].id > Len(models)
                 /\ models[j].fitted_on = <<series>>
            ELSE /\ models[j].id = j
                 /\ models[j].fitted_on = <<forecast_training, series>>

\* C8 witness: a successful fit over one member with and one without
\* untrained_model
C8_Witness ==
    /\ pc = "done"
    /\ \E j \in DOMAIN models : models[j].has_untrained_model
    /\ \E j \in DOMAIN models : ~models[j].has_untrained_model

\* The member at the position the logged call's model was given or created for
receiver(c) ==
    IF c.model <= Len(models)
    THEN models[c.model]
    ELSE CHOOSE m \in {models[j] : j \in DOMAIN models} : m.id = c.model

\* C9: in both loops, the fit call of a member of a global ensemble carries
\* past_covariates if and only if the member's uses_past_covariates is true and
\* future_covariates if and only if its uses_future_covariates is true (and then
\* the values fit was given); the fit call of a member of a local ensemble
\* carries the series only.
C9_CovariateRouting ==
    \A k \in DOMAIN calls :
        calls[k].op = "fit" =>
            IF is_global_ensemble
            THEN /\ calls[k].past_covariates =
                       (IF receiver(calls[k]).uses_past_covariates
                        THEN past_covariates ELSE Absent)
                 /\ calls[k].future_covariates =
                       (IF receiver(calls[k]).uses_future_covariates
                        THEN future_covariates ELSE Absent)
            ELSE /\ calls[k].past_covariates = Absent
                 /\ calls[k].future_covariates = Absent

\* C9 witness: in a finished global fit, a second-loop fit call carried the past
\* covariates and not the future ones
C9_Witness ==
    /\ pc = "done"
    /\ is_global_ensemble
    /\ \E k \in DOMAIN calls :
          /\ is_full_fit(calls[k])
          /\ calls[k].past_covariates = past_covariates
          /\ calls[k].future_covariates = Absent

\* C10: in a multi-series run of a global ensemble, a member's calibration
\* predict is called with the truncated series and exactly the covariates its
\* calibration fit was called with.
C10_PredictCovariatesAsInFit ==
    (is_global_ensemble /\ ~is_single_series) =>
        \A k \in DOMAIN calls :
            is_predict(calls[k]) =>
                /\ calls[k].series = forecast_training
                /\ \A a \in DOMAIN calls :
                      (is_calibration_fit(calls[a]) /\ calls[a].model = calls[k].model) =>
                          /\ calls[k].past_covariates = calls[a].past_covariates
                          /\ calls[k].future_covariates = calls[a].future_covariates

\* The last h points of a series
last_points(ts, h) == SubSeq(ts, Len(ts) - h + 1, Len(ts))

\* The held-out suffix of the training series: the last train_n_points points
\* of each of them
held_out_suffix ==
    [single |-> series.single,
     items |-> [j \in DOMAIN series.items |-> last_points(series.items[j], train_n_points)]]

\* C11: during a successful fit the regression model's fit is invoked exactly
\* once, its target is the held-out suffix (the last train_n_points points of
\* each training series), its features are the stack of the members'
\* predictions in member-list order, made by _stack_ts_seq in a single-series
\* run and by _stack_ts_multiseq otherwise, and every member was asked exactly
\* once for a prediction, of train_n_points steps.
C11_RegressionFitOnHeldOutSuffix ==
    pc = "done" =>
        /\ Cardinality({k \in DOMAIN calls : is_regression_fit(calls[k])}) = 1
        /\ \A k \in DOMAIN calls :
              is_regression_fit(calls[k]) =>
                 /\ calls[k].ok
                 /\ calls[k].series = held_out_suffix
                 /\ calls[k].features.helper =
                        (IF is_single_series THEN "_stack_ts_seq" ELSE "_stack_ts_multiseq")
                 /\ Len(calls[k].features.cols) = Len(models)
                 /\ \A j \in DOMAIN calls[k].features.cols :
                       /\ calls[k].features.cols[j].model = j
                       /\ calls[k].features.cols[j].n = train_n_points
        /\ \A j \in DOMAIN models :
              Cardinality({k \in DOMAIN calls :
                              is_predict(calls[k]) /\ calls[k].model = j}) = 1
        /\ \A k \in DOMAIN calls :
              is_predict(calls[k]) => calls[k].n = train_n_points

\* The reset step of fit (line 130) has run
reset_done == pc \in {"refit_models", "done"}
                 \/ (pc = "failed" /\ \E k \in DOMAIN calls : is_full_fit(calls[k]))

\* The second-loop fit calls of the log, in order
full_fit_calls == SelectSeq(calls, is_full_fit)

\* Number of members the orchestrator was given (each got one identity)
given_members == Cardinality({calls[k].model : k \in {a \in DOMAIN calls : is_calibration_fit(calls[a])}})

\* C12: once the reset step has run, the member list has the length and order
\* it had: position j holds a fresh copy (a new identity, obtained by one
\* untrained_model call on the member given at j) when that member exposes
\* untrained_model, and the very instance given at j otherwise; and the
\* second-loop fit calls go, in list order, to exactly the models of this list.
C12_ResetReplacesInPlace ==
    reset_done =>
        /\ Len(models) = given_members
        /\ \A j \in DOMAIN models :
              IF models[j].has_untrained_model
              THEN /\ models[j].id > Len(models)
                   /\ Cardinality({k \in DOMAIN calls :
                                      is_reset(calls[k]) /\ calls[k].model = j}) = 1
                   /\ \A f \in DOMAIN models[j].fitted_on :
                         models[j].fitted_on[f] = series
              ELSE /\ models[j].id = j
                   /\ \A k \in DOMAIN calls : is_reset(calls[k]) => calls[k].model # j
        /\ \A j, k \in DOMAIN models : j # k => models[j].id # models[k].id
        /\ Len(full_fit_calls) <= Len(models)
        /\ \A k \in DOMAIN full_fit_calls : full_fit_calls[k].model = models[k].id
        /\ pc = "done" => Len(full_fit_calls) = Len(models)

\* C12 witness: a finished fit over a member with untrained_model followed by
\* one without
C12_Witness ==
    /\ pc = "done"
    /\ Len(models) = 2
    /\ models[1].has_untrained_model
    /\ ~models[2].has_untrained_model

\* C13: when fit rejects the horizon with the configuration error, no
\* collaborator has been called: no member has been fit, asked to predict or
\* reset, the regression model has not been fit, the member list holds the
\* untouched instances it was given and the adapter is the one constructed;
\* only the base fit's bookkeeping (is_single_series, training_series) reflects
\* the call.
C13_RejectionBeforeAnyTraining ==
    (pc = "failed" /\ raised = ConfigurationError) =>
        /\ calls = <<>>
        /\ \A j \in DOMAIN models :
              /\ models[j].id = j
              /\ models[j].fitted_on = <<>>
        /\ next_id = Len(models) + 1
        /\ regression_model = LinearRegressionModel
        /\ forecast_training = NoData
        /\ regression_target = NoData
        /\ predictions = <<>>
        /\ training_series = series
        /\ is_single_series = series.single

\* C13 witness: a single-series fit has been rejected, over two members
C13_Witness ==
    /\ pc = "failed"
    /\ raised = ConfigurationError
    /\ is_single_series
    /\ training_series = series
    /\ Len(models) = 2

\* The points of the series of a fit or predict argument
points(data) ==
    UNION {{data.items[j][k] : k \in DOMAIN data.items[j]} : j \in DOMAIN data.items}

\* C14: for every horizon fit's check accepts, the series handed to a member's
\* calibration fit, and to a calibration predict that is given a series, shares
\* no point with the regression target, and the regression target has exactly
\* train_n_points points per training series.
C14_NoLeakIntoCalibration ==
    split_done =>
        /\ \A k \in DOMAIN calls :
              (is_calibration_fit(calls[k])
                  \/ (is_predict(calls[k]) /\ calls[k].series # NoData)) =>
                 points(calls[k].series) \cap points(regression_target) = {}
        /\ \A k \in DOMAIN calls :
              is_regression_fit(calls[k]) => calls[k].series = regression_target
        /\ Len(regression_target.items) = Len(series.items)
        /\ \A j \in DOMAIN regression_target.items :
              Len(regression_target.items[j]) = train_n_points

\* C15: every step taken after a successful fit (an ensemble call) leaves the
\* member list, every member's training history, the regression model's fitted
\* state and train_n_points as they are, and adds no fit, predict or reset call
\* on a member and no fit on the regression model: only ens, the record of the
\* adapter's predict calls and their results, changes.
C15_EnsembleKeepsTrainingState ==
    [][pc = "done" =>
          /\ pc' = "done"
          /\ models' = models
          /\ regression_model' = regression_model
          /\ train_n_points' = train_n_points
          /\ calls' = calls
          /\ next_id' = next_id
          /\ training_series' = training_series
          /\ is_single_series' = is_single_series]_vars

\* C15 witness: a single-series ensemble call has returned after a fit that
\* fit the regression model once
C15_Witness ==
    /\ pc = "done"
    /\ ens.called
    /\ raised = NoError
    /\ is_single_series
    /\ Len(regression_model.fitted_on) = 1
    /\ Len(ens.out) = 1

====
